---- MODULE Spec2Model ----
(***************************************************************************)
(* Model of the ARES import orchestration (src/src/ares_import/            *)
(* ares_import.py, class Importer): construction, run_import, the          *)
(* definition phase, the per-file import loop and the log-tail completion  *)
(* monitor, running against a target system that appends lines to the      *)
(* monitored log.                                                          *)
(***************************************************************************)
EXTENDS Integers, Sequences, FiniteSets, TLC

VARIABLES
    args,                   \* constructor arguments and the environment they meet
    pc,                     \* position of the orchestrator
    err,                    \* how the run ended abnormally ("none" otherwise)
    ares_data_types,        \* self.ares_data_types (Unset when never assigned)
    ares_runtime,           \* self.ares_runtime
    import_dir,             \* self.import_dir
    input_files,            \* self.input_files
    num_of_files,           \* self.num_of_files
    num_of_imported_files,  \* self.num_of_imported_files
    num_of_failed_files,    \* self.num_of_failed_files
    i,                      \* index of the file the loop is at (1-based)
    last_2_lines,           \* local of wait_until_import_is_successful
    result,                 \* local of wait_until_import_is_successful
    end_monitor,            \* local of wait_until_import_is_successful
    tail_call,              \* arguments of the latest call of tail
    log,                    \* lines of <runtime>/AdminServer/ares_server.log
    copies,                 \* history of shutil.copy calls
    opens,                  \* history: number of times the log was opened
    outcomes,               \* history: outcome recorded for each input file
    target                  \* the target system's progress

vars == <<args, pc, err, ares_data_types, ares_runtime, import_dir,
          input_files, num_of_files, num_of_imported_files,
          num_of_failed_files, i, last_2_lines, result, end_monitor,
          tail_call, log, copies, opens, outcomes, target>>

----------------------------------------------------------------------------
(* Bounds *)

MaxFiles == 3       \* most *.dat files in the data directory
MaxNoise == 1       \* most unrelated lines the target system logs in a run
MaxTailLines == 3   \* most lines of a file given to tail, and most asked of it
MaxBuffer == 4      \* largest _buffer given to tail, in characters

----------------------------------------------------------------------------
(* Values *)

None == "None"

\* An attribute that was never assigned, and one that holds the rules v.
Unset == [assigned |-> FALSE, rules |-> <<>>]
Assigned(v) == [assigned |-> TRUE, rules |-> v]

\* A path or name Python takes as false (None or the empty string).
NoPath == <<>>

\* tail's default _buffer
DefaultBuffer == 4098

NL == "\n"

\* First characters of the three kinds of log line the monitor recognises,
\* and of any other line.
FinishedMark == "F"     \* 'FileManagerImpl - Finished importing'
TimeMark == "T"         \* ' - Import time:'
FailedMark == "X"       \* ' - Import of task ... failed'
OtherMark == "o"

\* One character per import number (0: none).
Digit(n) == <<"0", "1", "2", "3", "4", "5", "6", "7", "8", "9">>[n + 1]

\* A log line: its first character, the number of the import it reports
\* and the line terminator.
Line(mark, task) == <<mark, Digit(task), NL>>

\* Base names of data files, as character sequences.
NameAB == <<"a", "b">>
NameAC == <<"a", "c">>
NameZ == <<"z">>
Names == {NameAB, NameAC, NameZ}

\* Two type rules whose patterns both match NameAB.
RuleA == [typ |-> "TA", re |-> <<"a">>, dir |-> <<"dirA">>]
RuleAB == [typ |-> "TAB", re |-> <<"a", "b">>, dir |-> <<"dirAB">>]

\* Contents of import_file_types.json, in iteration order.
Catalogs == {<<RuleA, RuleAB>>, <<RuleAB, RuleA>>}

\* Paths are sequences of components; a file is a directory and a base name.
DataDir == <<"data">>
RuntimeDir == <<"runtime">>             \* the ares_runtime argument
EnvDir == <<"env_runtime">>             \* os.environ["ARES_RUNTIME"]
Home == <<"home">>                      \* os.environ['HOME']
OverrideDir == <<"D">>
DefFile == [dir |-> <<"defs">>, base |-> <<"p">>]
SingleFile == [dir |-> <<"in">>, base |-> NameAB]

----------------------------------------------------------------------------
(* Pure functions *)

\* os.path.basename
basename(fname) == fname.base

\* rx.match(s) / re.match(rx, s): a match anchored at the start of s; the
\* patterns are literal prefixes.
Match(rx, s) == Len(rx) <= Len(s) /\ SubSeq(s, 1, Len(rx)) = rx

\* Python's s[-n:]
LastN(s, n) == IF n = 0 \/ n >= Len(s) THEN s ELSE SubSeq(s, Len(s) - n + 1, Len(s))

\* Position of the first line terminator of s, 0 when there is none.
RECURSIVE FirstNL(_, _)
FirstNL(s, k) ==
    IF k > Len(s) THEN 0
    ELSE IF s[k] = NL THEN k
    ELSE FirstNL(s, k + 1)

\* The lines of a text, each with its terminator (file.readlines on what
\* is left of the file). The text s and the position k of its first
\* terminator are bound as values, to be evaluated once.
RECURSIVE SplitLines(_)
SplitLines(text) ==
    CHOOSE ls \in {IF s = <<>> THEN <<>>
                   ELSE IF k = 0 THEN <<s>>
                   ELSE <<SubSeq(s, 1, k)>> \o SplitLines(SubSeq(s, k + 1, Len(s)))
                   : s \in {text}, k \in {FirstNL(text, 1)}} : TRUE

\* f.seek(pos); f.readlines()
readlines(f, pos) == SplitLines(SubSeq(f, pos + 1, Len(f)))

\* The loop of tail: seek block_counter * _buffer from the end, falling
\* back to the whole file when the seek raises: when that lies before the
\* start of the file, or always when the file object refuses seeks
\* relative to the end (text files of Python 3).
RECURSIVE TailLoop(_, _, _, _, _)
TailLoop(f, lines, buffer, block_counter, lines_found) ==
    IF ~(Len(lines_found) < lines) THEN lines_found
    ELSE IF ~args.seekable \/ Len(f) + block_counter * buffer < 0
         THEN readlines(f, 0)
    ELSE TailLoop(f, lines, buffer, block_counter - 1,
                  readlines(f, Len(f) + block_counter * buffer))

\* Importer.tail(f, lines, _buffer)
tail(f, lines, buffer) == LastN(TailLoop(f, lines, buffer, -1, <<>>), lines)

\* The text of a file holding the lines ls.
RECURSIVE FileText(_)
FileText(ls) == IF ls = <<>> THEN <<>> ELSE Head(ls) \o FileText(Tail(ls))

\* The detection loop without its 'break': the last matching rule wins.
RECURSIVE LastMatch(_, _)
LastMatch(catalog, name) ==
    IF catalog = <<>> THEN [ftype |-> None, fimport_dir |-> NoPath]
    ELSE IF Match(catalog[Len(catalog)].re, name)
         THEN [ftype |-> catalog[Len(catalog)].typ,
               fimport_dir |-> catalog[Len(catalog)].dir]
    ELSE LastMatch(SubSeq(catalog, 1, Len(catalog) - 1), name)

\* The detection loop of do_import_from_dir: the first rule, in the
\* catalog's order, whose pattern matches the base name; None when no rule
\* matches.
RECURSIVE FirstMatch(_, _)
FirstMatch(catalog, name) ==
    IF catalog = <<>> THEN [ftype |-> None, fimport_dir |-> NoPath]
    ELSE IF Match(Head(catalog).re, name)
         THEN [ftype |-> Head(catalog).typ, fimport_dir |-> Head(catalog).dir]
    ELSE FirstMatch(Tail(catalog), name)

\* Whether self.ares_data_types[ftype] exists (no KeyError).
HasType(catalog, ftype) == \E k \in 1..Len(catalog) : catalog[k].typ = ftype

\* self.ares_data_types[ftype]['dir']
TypeDir(catalog, ftype) ==
    catalog[CHOOSE k \in 1..Len(catalog) : catalog[k].typ = ftype].dir

----------------------------------------------------------------------------
(* The environment of a run *)

\* Sequences without repetition of at most n elements of S, the possible
\* results of glob.glob(data_dir + '/*.dat').
InjSeqs(S, n) ==
    UNION {{q \in [1..m -> S] : \A a, b \in 1..m : a # b => q[a] # q[b]} : m \in 0..n}

\* What the log may hold when the run starts: nothing, one unrelated line,
\* or the terminal pair of an import made before this run.
InitLogs == {<<>>,
             <<Line(OtherMark, 0)>>,
             <<Line(TimeMark, 0), Line(FinishedMark, 0)>>}

\* The arguments of Importer(...) and the facts of the environment they
\* are checked against.
ArgSpace ==
    [data_dir : {None, "missing", "dir"},   \* not given, not a directory, a directory
     dir_names : InjSeqs(Names, MaxFiles),  \* base names of its *.dat files
     input_file : BOOLEAN,                  \* a single input file is given
     def_file : BOOLEAN,                    \* a definition file is given
     ares_runtime : {NoPath, RuntimeDir},   \* the runtime root argument
     env_set : BOOLEAN,                     \* ARES_RUNTIME is in the environment
     home_isdir : BOOLEAN,                  \* ~/ARES_RUNTIME is a directory
     runtime_isdir : BOOLEAN,               \* os.path.isdir(self.ares_runtime)
     seekable : BOOLEAN,                    \* the log file object seeks from its end
     import_dir : {NoPath, OverrideDir},    \* the override sub-directory
     import_dir_isdir : BOOLEAN,            \* os.path.isdir(import_dir)
     data_type : {None, "TA", "TQ"},        \* the forced type
     cfg_ok : BOOLEAN,                      \* import_file_types.json loads
     catalog : Catalogs,                    \* what it holds
     log_ok : BOOLEAN]                      \* the log can be opened

\* Combinations that differ only in a fact the run never looks at are
\* left out.
ArgsOK(a) ==
    /\ (a.data_dir # "dir" => a.dir_names = <<>>)
    /\ (a.import_dir = NoPath => a.import_dir_isdir)
    /\ (a.data_dir # None => ~a.input_file)
    /\ (~a.cfg_ok => a.catalog = <<RuleA, RuleAB>>)
    /\ (a.ares_runtime = NoPath /\ ~a.env_set => a.runtime_isdir = a.home_isdir)

\* The runs of the orchestrator: the runtime root is given as argument.
\* The default buffer of tail exceeds the size of every log of the model,
\* so that whether the log seeks from its end makes no difference to them.
MainArgs ==
    {a \in ArgSpace : /\ ArgsOK(a)
                      /\ a.ares_runtime = RuntimeDir
                      /\ ~a.env_set /\ ~a.home_isdir
                      /\ a.seekable}

\* Importer.AresRuntimeDir with the home directory's default taking
\* priority over the environment.
AresRuntimeDirHomeFirst(a) ==
    IF a.home_isdir THEN Home \o <<"ARES_RUNTIME">>
    ELSE IF a.env_set THEN EnvDir
    ELSE NoPath

\* Importer.AresRuntimeDir, set when the class is defined.
AresRuntimeDir(a) ==
    IF a.env_set THEN EnvDir
    ELSE IF a.home_isdir THEN Home \o <<"ARES_RUNTIME">>
    ELSE NoPath

\* self.ares_import
ares_import == ares_runtime \o <<"import">>

\* self.admin_server_log
admin_server_log == ares_runtime \o <<"AdminServer", "ares_server.log">>

\* The result line of a terminal pair: import time for a success, task
\* failed for a failure.
ResultMark(res) == IF res THEN TimeMark ELSE FailedMark

----------------------------------------------------------------------------
(* The orchestrator *)

\* The state before __init__, for arguments of A, a log of logs and the
\* position pc0.
InitFrom(A, logs, pc0) ==
    /\ args \in A
    /\ pc = pc0
    /\ err = "none"
    /\ ares_data_types = Unset
    /\ ares_runtime = NoPath
    /\ tail_call = [lines |-> 0, buffer |-> DefaultBuffer]
    /\ import_dir = NoPath
    /\ input_files = <<>>
    /\ num_of_files = 1
    /\ num_of_imported_files = 0
    /\ num_of_failed_files = 0
    /\ i = 0
    /\ last_2_lines = <<>>
    /\ result = FALSE
    /\ end_monitor = FALSE
    /\ log \in logs
    /\ copies = <<>>
    /\ opens = 0
    /\ outcomes = <<>>
    /\ target = [served |-> 0, results |-> <<>>, mid |-> FALSE,
                 res |-> FALSE, finished_first |-> FALSE, noise |-> 0]

Init == InitFrom(MainArgs, InitLogs, "new")

\* __init__ without the check for an empty list of input files.
InitEndNoEmptyCheck(a) ==
    IF ~a.runtime_isdir THEN <<"exited", "fatal_runtime">>
    ELSE IF a.data_dir = None THEN <<"raised", "TypeError">>
    ELSE IF a.data_dir # "dir" THEN <<"exited", "fatal_datadir">>
    ELSE IF a.import_dir # NoPath /\ ~a.import_dir_isdir
         THEN <<"exited", "fatal_importdir">>
    ELSE <<"constructed", "none">>

\* How far __init__ gets: the position it leaves the run at and the reason.
InitEnd(a) ==
    IF ~a.runtime_isdir THEN <<"exited", "fatal_runtime">>
    ELSE IF a.data_dir = None THEN <<"raised", "TypeError">>
    ELSE IF a.data_dir # "dir" THEN <<"exited", "fatal_datadir">>
    ELSE IF Len(a.dir_names) < 1 THEN <<"exited", "fatal_nofiles">>
    ELSE IF a.import_dir # NoPath /\ ~a.import_dir_isdir
         THEN <<"exited", "fatal_importdir">>
    ELSE <<"constructed", "none">>

\* glob.glob(self.data_dir + '/*.dat')
Glob(a) == [k \in 1..Len(a.dir_names) |-> [dir |-> DataDir, base |-> a.dir_names[k]]]

\* Importer.__init__
Construct ==
    /\ pc = "new"
    /\ ares_data_types' =
          IF args.data_type = None /\ args.import_dir = NoPath /\ args.cfg_ok
          THEN Assigned(args.catalog)
          ELSE ares_data_types
    /\ num_of_files' = 1
    /\ num_of_imported_files' = 0
    /\ num_of_failed_files' = 0
    /\ ares_runtime' = IF args.ares_runtime # NoPath THEN args.ares_runtime
                       ELSE AresRuntimeDir(args)
    /\ pc' = InitEnd(args)[1]
    /\ err' = InitEnd(args)[2]
    /\ input_files' =
          IF args.runtime_isdir /\ args.data_dir = "dir" THEN Glob(args)
          ELSE input_files
    /\ import_dir' =
          IF InitEnd(args)[1] = "constructed" THEN args.import_dir ELSE NoPath
    /\ UNCHANGED <<args, tail_call, i, last_2_lines, result, end_monitor, log, copies,
                   opens, outcomes, target>>

\* The "Detect data type" block of do_import_from_dir and
\* do_import_single_file: the type and sub-directory of fname, or the
\* exception the block raises.
Detect(fname) ==
    IF import_dir # NoPath
    THEN [ftype |-> "assumed", fimport_dir |-> import_dir, raises |-> "none"]
    ELSE IF ~ares_data_types.assigned
    THEN [ftype |-> None, fimport_dir |-> NoPath, raises |-> "AttributeError"]
    ELSE IF args.data_type # None
    THEN IF HasType(ares_data_types.rules, args.data_type)
         THEN [ftype |-> args.data_type,
               fimport_dir |-> TypeDir(ares_data_types.rules, args.data_type),
               raises |-> "none"]
         ELSE [ftype |-> None, fimport_dir |-> NoPath, raises |-> "KeyError"]
    ELSE [raises |-> "none"] @@ FirstMatch(ares_data_types.rules, basename(fname))

\* 'if not ftype:' in the two import functions: the file is counted as
\* failed and skipped, or it is placed.
Unidentified(d) == d.raises = "none" /\ d.ftype = None

\* The copy made without the 'continue' of the unidentified branch.
PlacedAlways(d) == d.raises = "none"

Placed(d) == d.raises = "none" /\ d.ftype # None

\* shutil.copy(fname, dst), with the type logged just before it and the
\* number of log lines at the moment the copy is made.
Copy(fname, dst, ftype) ==
    [src |-> fname, dst |-> dst, ftype |-> ftype, at |-> Len(log)]

\* The outcome recorded for fname: "Unclassified", "Succeeded" or "Failed",
\* the number of the copy that was waited on (0 when there was none) and
\* the number of placed files the target system had reported by then.
Outcome(fname, o, copy) ==
    [file |-> fname, outcome |-> o, copy |-> copy, served |-> target.served]

\* The end of one file: on to the next file of the loop, or to the summary
\* after the last one (and after the single file, where i stays 0).
NextPos == IF i >= 1 /\ i < Len(input_files) THEN "loop" ELSE "done"

\* The loop going back to the same file when its import failed.
RetryFailed(res) == IF res THEN i + 1 ELSE i

\* The index of the file the loop of do_import_from_dir takes after the
\* file whose wait returned res: always the next one.
NextIndex(res) == i + 1

\* The patterns wait_until_import_is_successful matches the lines against.
FinishedRe == <<FinishedMark>>
ImportTimeRe == <<TimeMark>>
TaskFailedRe == <<FailedMark>>

\* Importer.run_import up to its first wait: compile_patterns, then
\* import_definitions up to its wait when a definition file is given, else
\* the entry of do_import_from_dir or do_import_single_file.
RunImport ==
    /\ pc = "constructed"
    /\ LET compiled == ares_data_types.assigned
           defs == compiled /\ args.def_file
           nofolder == defs /\ import_dir = NoPath
           placed == defs /\ ~nofolder
           fimport_dir == <<"paramdef">> \o import_dir
           toloop == compiled /\ ~defs /\ args.data_dir # None
       IN  /\ pc' = IF ~compiled THEN "raised"
                    ELSE IF nofolder THEN "exited"
                    ELSE IF placed THEN (IF args.log_ok THEN "waitdef" ELSE "raised")
                    ELSE IF toloop THEN "loop"
                    ELSE "single"
           /\ err' = IF ~compiled THEN "AttributeError"
                     ELSE IF nofolder THEN "fatal_deffolder"
                     ELSE IF placed /\ ~args.log_ok THEN "IOError"
                     ELSE err
           /\ copies' = IF placed
                        THEN Append(copies, Copy(DefFile, ares_import \o fimport_dir, "DEF_FILE"))
                        ELSE copies
           /\ opens' = IF placed /\ args.log_ok THEN opens + 1 ELSE opens
           /\ num_of_files' = IF toloop THEN Len(input_files) ELSE num_of_files
           /\ i' = IF toloop THEN 1 ELSE i
    /\ result' = FALSE
    /\ end_monitor' = FALSE
    /\ last_2_lines' = <<>>
    /\ UNCHANGED <<args, ares_runtime, tail_call, ares_data_types, import_dir, input_files,
                   num_of_imported_files, num_of_failed_files, log,
                   outcomes, target>>

\* An unidentified file warned about and not counted.
UnidentifiedNotCounted == num_of_failed_files

\* The failed counter after an unidentified file.
UnidentifiedFailed == num_of_failed_files + 1

\* One file of do_import_from_dir (or the file of do_import_single_file)
\* up to its wait: detect the type; count an unidentified file as failed
\* and go on; else copy the file and open the log.
ImportFile ==
    /\ pc \in {"loop", "single"}
    /\ LET fname == IF pc = "loop" THEN input_files[i] ELSE SingleFile
           d == Detect(fname)
           unidentified == Unidentified(d)
           placed == Placed(d)
       IN  /\ pc' = IF d.raises # "none" THEN "raised"
                    ELSE IF unidentified THEN NextPos
                    ELSE IF args.log_ok THEN "wait"
                    ELSE "raised"
           /\ err' = IF d.raises # "none" THEN d.raises
                     ELSE IF placed /\ ~args.log_ok THEN "IOError"
                     ELSE err
           /\ num_of_failed_files' =
                 IF unidentified THEN UnidentifiedFailed ELSE num_of_failed_files
           /\ outcomes' =
                 IF unidentified
                 THEN Append(outcomes, Outcome(fname, "Unclassified", 0))
                 ELSE outcomes
           /\ i' = IF unidentified /\ NextPos = "loop" THEN i + 1 ELSE i
           /\ copies' = IF placed
                        THEN Append(copies, Copy(fname, ares_import \o d.fimport_dir, d.ftype))
                        ELSE copies
           /\ opens' = IF placed /\ args.log_ok THEN opens + 1 ELSE opens
    /\ result' = FALSE
    /\ end_monitor' = FALSE
    /\ last_2_lines' = <<>>
    /\ UNCHANGED <<args, ares_runtime, tail_call, ares_data_types, import_dir, input_files, num_of_files,
                   num_of_imported_files, log, target>>

\* The verdict of one pass of the monitor's loop on the lines it read:
\* the values of result and end_monitor after it.
Verdict(lines2, res) ==
    LET line1 == lines2[1]
        line2 == lines2[2]
        fin == Match(FinishedRe, line2)
        ok == fin /\ Match(ImportTimeRe, line1)
        bad == fin /\ Match(TaskFailedRe, line1)
    IN  [result |-> IF bad THEN FALSE ELSE IF ok THEN TRUE ELSE res,
         end_monitor |-> ok \/ bad]

\* update_stats_on_result without its else branch: a failure is not counted.
update_stats_success_only(res) ==
    IF res THEN <<num_of_imported_files + 1, num_of_failed_files>>
    ELSE <<num_of_imported_files, num_of_failed_files>>

\* Importer.update_stats_on_result: the counters <<imported, failed>> after it.
update_stats_on_result(res) ==
    IF res THEN <<num_of_imported_files + 1, num_of_failed_files>>
    ELSE <<num_of_imported_files, num_of_failed_files + 1>>

\* One pass of the loop of wait_until_import_is_successful (sleep, read the
\* tail, decide), and, when it ends the wait, the caller's code after the
\* wait: the rest of import_definitions and the entry of the import phase,
\* or update_stats_on_result and the step to the next file.
Poll ==
    /\ pc \in {"wait", "waitdef"}
    /\ LET l2 == tail(FileText(log), 2, DefaultBuffer)
           short == Len(l2) < 2
           v == IF short THEN [result |-> result, end_monitor |-> FALSE]
                ELSE Verdict(l2, result)
           returns == ~short /\ v.end_monitor
           defok == returns /\ pc = "waitdef" /\ v.result
           deffail == returns /\ pc = "waitdef" /\ ~v.result
           datadone == returns /\ pc = "wait"
           toloop == defok /\ args.data_dir # None
           stats == update_stats_on_result(v.result)
       IN  /\ last_2_lines' = l2
           /\ result' = v.result
           /\ end_monitor' = v.end_monitor
           /\ pc' = IF short THEN "raised"
                    ELSE IF deffail THEN "exited"
                    ELSE IF defok THEN (IF toloop THEN "loop" ELSE "single")
                    ELSE IF datadone THEN NextPos
                    ELSE pc
           /\ err' = IF short THEN "IndexError"
                     ELSE IF deffail THEN "fatal_deffailed"
                     ELSE err
           /\ import_dir' = IF defok THEN <<"parameter">> \o import_dir ELSE import_dir
           /\ num_of_files' = IF toloop THEN Len(input_files) ELSE num_of_files
           /\ i' = IF toloop THEN 1
                   ELSE IF datadone /\ NextPos = "loop" THEN NextIndex(v.result)
                   ELSE i
           /\ num_of_imported_files' =
                 IF datadone THEN stats[1] ELSE num_of_imported_files
           /\ num_of_failed_files' =
                 IF datadone THEN stats[2] ELSE num_of_failed_files
           /\ outcomes' =
                 IF datadone
                 THEN Append(outcomes,
                             Outcome(copies[Len(copies)].src,
                                     IF v.result THEN "Succeeded" ELSE "Failed",
                                     Len(copies)))
                 ELSE outcomes
    /\ tail_call' = [lines |-> 2, buffer |-> DefaultBuffer]
    /\ UNCHANGED <<args, ares_runtime, ares_data_types, input_files, log, copies,
                   opens, target>>

----------------------------------------------------------------------------
(* The target system *)

\* The target system logs a line that reports no import.
TargetNoise ==
    /\ target.noise < MaxNoise
    /\ log' = Append(log, Line(OtherMark, 0))
    /\ target' = [target EXCEPT !.noise = @ + 1]
    /\ UNCHANGED <<args, ares_runtime, tail_call, pc, err, ares_data_types, import_dir, input_files,
                   num_of_files, num_of_imported_files, num_of_failed_files, i,
                   last_2_lines, result, end_monitor, copies, opens, outcomes>>

\* The target system starts to report the oldest placed file it has not
\* reported: it logs the first line of the terminal pair, the result line
\* or the import-finished line.
TargetReportFirst ==
    /\ ~target.mid
    /\ target.served < Len(copies)
    /\ \E res \in BOOLEAN, ff \in BOOLEAN :
          /\ log' = Append(log, Line(IF ff THEN FinishedMark ELSE ResultMark(res),
                                     target.served + 1))
          /\ target' = [target EXCEPT !.mid = TRUE, !.res = res,
                                      !.finished_first = ff]
    /\ UNCHANGED <<args, ares_runtime, tail_call, pc, err, ares_data_types, import_dir, input_files,
                   num_of_files, num_of_imported_files, num_of_failed_files, i,
                   last_2_lines, result, end_monitor, copies, opens, outcomes>>

\* The target system starts to report the oldest placed file it has not
\* reported, with the import-finished line.
TargetFinishedFirst ==
    /\ ~target.mid
    /\ target.served < Len(copies)
    /\ \E res \in BOOLEAN :
          /\ log' = Append(log, Line(FinishedMark, target.served + 1))
          /\ target' = [target EXCEPT !.mid = TRUE, !.res = res,
                                      !.finished_first = TRUE]
    /\ UNCHANGED <<args, ares_runtime, tail_call, pc, err, ares_data_types,
                   import_dir, input_files, num_of_files,
                   num_of_imported_files, num_of_failed_files, i,
                   last_2_lines, result, end_monitor, copies, opens, outcomes>>

\* The target system logs the other line of the pair.
TargetReportSecond ==
    /\ target.mid
    /\ log' = Append(log, Line(IF target.finished_first THEN ResultMark(target.res)
                               ELSE FinishedMark,
                               target.served + 1))
    /\ target' = [target EXCEPT !.mid = FALSE, !.served = @ + 1,
                                !.results = Append(@, target.res)]
    /\ UNCHANGED <<args, ares_runtime, tail_call, pc, err, ares_data_types, import_dir, input_files,
                   num_of_files, num_of_imported_files, num_of_failed_files, i,
                   last_2_lines, result, end_monitor, copies, opens, outcomes>>

----------------------------------------------------------------------------

Next ==
    \/ Construct
    \/ RunImport
    \/ ImportFile
    \/ Poll
    \/ TargetNoise
    \/ TargetReportFirst
    \/ TargetReportSecond

Spec == Init /\ [][Next]_vars

\* Directory runs of at most two files that get to the import loop, with
\* a target system that logs, for every placed file, the import-finished
\* line and then the result line, and nothing else.
LiveArgs ==
    {a \in MainArgs : /\ a.runtime_isdir
                      /\ a.data_dir = "dir" /\ Len(a.dir_names) <= 2
                      /\ ~a.def_file
                      /\ a.import_dir = NoPath
                      /\ a.data_type = None
                      /\ a.cfg_ok
                      /\ a.log_ok}

InitLive == InitFrom(LiveArgs, InitLogs, "new")

NextLive ==
    \/ Construct
    \/ RunImport
    \/ ImportFile
    \/ Poll
    \/ TargetFinishedFirst
    \/ TargetReportSecond

\* The orchestrator is a sequential program that keeps running, the
\* monitor polls every second, and the target system reports every file
\* placed.
SpecLive ==
    /\ InitLive
    /\ [][NextLive]_vars
    /\ WF_vars(Construct \/ RunImport \/ ImportFile)
    /\ WF_vars(Poll)
    /\ WF_vars(TargetFinishedFirst \/ TargetReportSecond)

\* Runs over every way the runtime root can be given: directory runs of
\* at most one file, with a loaded catalog and no definition file.
LayoutArgs ==
    {a \in ArgSpace : /\ ArgsOK(a)
                      /\ a.seekable
                      /\ a.data_dir = "dir" /\ Len(a.dir_names) <= 1
                      /\ ~a.def_file
                      /\ a.data_type = None
                      /\ a.cfg_ok /\ a.catalog = <<RuleA, RuleAB>>
                      /\ a.log_ok}

InitLayout == InitFrom(LayoutArgs, InitLogs, "new")

SpecLayout == InitLayout /\ [][Next]_vars

TypeOK ==
    /\ pc \in {"new", "constructed", "loop", "single", "wait", "waitdef",
               "done", "exited", "raised", "tail", "tailed"}
    /\ num_of_imported_files \in 0..MaxFiles
    /\ num_of_failed_files \in 0..MaxFiles

----------------------------------------------------------------------------
(* Properties *)

\* The run got through __init__.
PassedInit == pc # "new" /\ InitEnd(args)[1] = "constructed"

\* The run is past the entry of run_import.
Started == PassedInit /\ pc # "constructed"

\* Number of input files recorded with outcome o.
Count(o) == Cardinality({k \in 1..Len(outcomes) : outcomes[k].outcome = o})

\* No rule of the loaded catalog matches the base name.
NoRuleMatches(name) ==
    \A k \in 1..Len(ares_data_types.rules) : ~Match(ares_data_types.rules[k].re, name)

\* C1: the verdict of a poll as the specification words it. When a poll has
\* read two lines the wait has ended with success exactly when the
\* second-to-last line is the import-finished marker and the last line the
\* import-time marker, has ended with failure exactly when the
\* second-to-last line is the import-finished marker and the last line the
\* task-failed marker, and goes on polling in every other case.
C1_VerdictAsSpecified ==
    Len(last_2_lines) = 2 =>
        LET secondlast == last_2_lines[1]
            last == last_2_lines[2]
        IN  /\ (end_monitor /\ result) <=>
                  (Match(FinishedRe, secondlast) /\ Match(ImportTimeRe, last))
            /\ (end_monitor /\ ~result) <=>
                  (Match(FinishedRe, secondlast) /\ Match(TaskFailedRe, last))

\* C2: batch resilience. In the import phase of a directory run the total
\* is the number of input files, an outcome has been recorded for every
\* file before the one the loop is at, in enumeration order, the succeeded
\* counter is the number of Succeeded outcomes and the failed counter the
\* number of Unclassified plus Failed outcomes; at Done every file has its
\* outcome and succeeded + failed = total. A run that has recorded an
\* outcome is never aborted: it stops short of Done only when the wait of a
\* later file raises.
C2_BatchResilience ==
    /\ (args.data_dir = "dir" /\ pc \in {"loop", "wait", "done"}) =>
          /\ num_of_files = Len(input_files)
          /\ Len(outcomes) = (IF pc = "done" THEN Len(input_files) ELSE i - 1)
          /\ \A k \in 1..Len(outcomes) : outcomes[k].file = input_files[k]
          /\ num_of_imported_files = Count("Succeeded")
          /\ num_of_failed_files = Count("Unclassified") + Count("Failed")
          /\ (pc = "done" => num_of_imported_files + num_of_failed_files = num_of_files)
    /\ (outcomes # <<>> /\ pc \notin {"loop", "wait", "done"}) =>
          (pc = "raised" /\ err \in {"IndexError", "IOError"})

\* A run of three files that reached Done with one file unclassified, one
\* Failed and one Succeeded.
C2_Witness ==
    /\ pc = "done"
    /\ Len(input_files) = 3
    /\ Count("Unclassified") = 1 /\ Count("Failed") = 1 /\ Count("Succeeded") = 1
    /\ num_of_imported_files = 1 /\ num_of_failed_files = 2 /\ num_of_files = 3

C4_TwoPhaseDestinations ==
    (args.def_file /\ args.import_dir # NoPath /\ Started) =>
        /\ Len(copies) >= 1
        /\ copies[1].dst = ares_import \o <<"paramdef">> \o args.import_dir
        /\ \A c \in 2..Len(copies) :
              copies[c].dst = ares_import \o <<"parameter">> \o args.import_dir

\* C5: each wait reports the import placed just before it. The target
\* system had reported the copy a recorded outcome waited on, and the
\* outcome is the result it logged for that copy.
C5_WaitReportsOwnImport ==
    \A k \in 1..Len(outcomes) :
        outcomes[k].copy > 0 =>
            /\ outcomes[k].served >= outcomes[k].copy
            /\ (outcomes[k].outcome = "Succeeded") = target.results[outcomes[k].copy]

\* C6: unclassified files never touch the filesystem. A step of the
\* orchestrator at a file that no rule matches, with no forced type and no
\* override, makes no copy and does not open the log; it adds one to the
\* failed counter, leaves the succeeded counter, and moves to the next file
\* (to the summary after the last one).
C6_UnclassifiedTouchesNothing ==
    [][(/\ pc = "loop"
        /\ import_dir = NoPath
        /\ args.data_type = None
        /\ ares_data_types.assigned
        /\ NoRuleMatches(basename(input_files[i]))
        /\ <<pc, i, err, outcomes>> # <<pc, i, err, outcomes>>')
       => (/\ copies' = copies
           /\ opens' = opens
           /\ log' = log
           /\ num_of_failed_files' = num_of_failed_files + 1
           /\ num_of_imported_files' = num_of_imported_files
           /\ Len(outcomes') = Len(outcomes) + 1
           /\ outcomes'[Len(outcomes')].outcome = "Unclassified"
           /\ IF i < Len(input_files)
              THEN pc' = "loop" /\ i' = i + 1
              ELSE pc' = "done")]_vars

\* An unclassified file has been recorded, and a file after it was placed.
C6_Witness ==
    \E k \in 1..Len(outcomes) :
        /\ outcomes[k].outcome = "Unclassified"
        /\ NoRuleMatches(basename(outcomes[k].file))
        /\ k < Len(input_files)
        /\ \E c \in 1..Len(copies) : copies[c].src = input_files[k + 1]

\* C7: the override bypasses classification. A run given an override (and
\* no definition file) never ends on an error of the catalog, loaded or
\* not; every copy it makes goes to <import root>/<override>, and at Done
\* every input file has been copied.
C7_OverrideNeedsNoCatalog ==
    (args.import_dir # NoPath /\ ~args.def_file /\ Started) =>
        /\ err \notin {"AttributeError", "KeyError"}
        /\ \A c \in 1..Len(copies) : copies[c].dst = ares_import \o args.import_dir
        /\ (pc = "done" => Len(copies) = Len(input_files))

\* C8: forced type. A run given a forced type that the configuration file
\* defines, and no override, never ends on an error of the catalog; every
\* copy it makes goes to that type's sub-directory, and at Done every input
\* file has been copied.
C8_ForcedTypeRoutes ==
    (/\ args.data_type = "TA"
     /\ args.cfg_ok
     /\ args.import_dir = NoPath
     /\ ~args.def_file
     /\ Started) =>
        /\ err \notin {"AttributeError", "KeyError"}
        /\ \A c \in 1..Len(copies) :
              /\ copies[c].ftype = "TA"
              /\ copies[c].dst = ares_import \o TypeDir(args.catalog, "TA")
        /\ (pc = "done" => Len(copies) = Len(input_files))

\* C9: classification priority. With no forced type and no override, every
\* file copied went to the destination, and was given the type, of the
\* first rule in the catalog's order whose pattern matches its base name.
C9_FirstMatchWins ==
    (args.data_type = None /\ args.import_dir = NoPath) =>
        \A c \in 1..Len(copies) :
            LET name == basename(copies[c].src)
                rules == ares_data_types.rules
            IN  \E k \in 1..Len(rules) :
                    /\ Match(rules[k].re, name)
                    /\ \A j \in 1..(k - 1) : ~Match(rules[j].re, name)
                    /\ copies[c].ftype = rules[k].typ
                    /\ copies[c].dst = ares_import \o rules[k].dir

\* A file that two rules match has been copied.
C9_Witness ==
    \E c \in 1..Len(copies) :
        /\ args.data_type = None /\ args.import_dir = NoPath
        /\ Cardinality({k \in 1..Len(ares_data_types.rules) :
                           Match(ares_data_types.rules[k].re, basename(copies[c].src))}) = 2

\* C10: single-file mode. A run given a single input file and no data
\* directory, with the runtime root in place, gets through Init (it does
\* not end on the data-directory checks), and at Done has total = 1,
\* succeeded + failed = 1 and at most the one copy.
C10_SingleFileMode ==
    (args.input_file /\ args.data_dir = None /\ args.runtime_isdir /\ pc # "new") =>
        /\ err \notin {"TypeError", "fatal_datadir", "fatal_nofiles"}
        /\ (pc = "done" =>
               /\ num_of_files = 1
               /\ num_of_imported_files + num_of_failed_files = 1
               /\ Len(copies) <= 1)

\* C11: a run ends abnormally only for a listed fatal condition. A run
\* that has exited or raised did so for a missing runtime root, a missing
\* or empty input set (no data directory and no input file, a data
\* directory that does not exist or holds no file), a definition file
\* without override, a failed definition import, or a log that cannot be
\* opened.
C11_OnlyListedFatals ==
    pc \in {"exited", "raised"} =>
        \/ err \in {"fatal_runtime", "fatal_datadir", "fatal_nofiles",
                    "fatal_deffolder", "fatal_deffailed", "IOError"}
        \/ (err = "TypeError" /\ ~args.input_file)

\* C12: short-log tolerance. A pass of the monitor's loop over a log of
\* fewer than two lines raises nothing and leaves the wait pending.
C12_ShortLogPending ==
    [][(/\ pc \in {"wait", "waitdef"}
        /\ Len(log) < 2
        /\ last_2_lines' # last_2_lines \/ pc' # pc)
       => (pc' = pc /\ err' = err /\ ~end_monitor')]_vars

\* C14: no retries, one copy per file. No file is copied twice; a file
\* recorded Unclassified was never copied, and a file recorded Succeeded or
\* Failed was copied exactly once; the log is opened once per copy.
C14_OneCopyPerFile ==
    /\ \A c1, c2 \in 1..Len(copies) :
          copies[c1].src = copies[c2].src => c1 = c2
    /\ \A k \in 1..Len(outcomes) :
          LET n == Cardinality({c \in 1..Len(copies) : copies[c].src = outcomes[k].file})
          IN  IF outcomes[k].outcome = "Unclassified" THEN n = 0 ELSE n = 1
    /\ \A k1, k2 \in 1..Len(outcomes) :
          outcomes[k1].file = outcomes[k2].file => k1 = k2
    /\ opens <= Len(copies)

\* A run reached Done after a file was reported Failed and a later file
\* was imported.
C14_Witness ==
    /\ pc = "done"
    /\ \E k \in 1..Len(outcomes) :
          /\ outcomes[k].outcome = "Failed"
          /\ k < Len(outcomes)
          /\ outcomes[k + 1].outcome # "Unclassified"

\* C15: fatal aborts of Init leave no trace. When the runtime root is not a
\* directory, or the data directory given does not exist or holds no *.dat
\* file, the constructed run has exited fatally for that reason, with no
\* copy made, the log never opened or read, and the statistics at their
\* initial values.
C15_InitAbortsLeaveNoTrace ==
    (/\ pc # "new"
     /\ \/ ~args.runtime_isdir
        \/ args.data_dir = "missing"
        \/ (args.data_dir = "dir" /\ args.dir_names = <<>>)) =>
        /\ pc = "exited"
        /\ err = (IF ~args.runtime_isdir THEN "fatal_runtime"
                  ELSE IF args.data_dir = "missing" THEN "fatal_datadir"
                  ELSE "fatal_nofiles")
        /\ copies = <<>>
        /\ opens = 0
        /\ last_2_lines = <<>>
        /\ outcomes = <<>>
        /\ num_of_files = 1
        /\ num_of_imported_files = 0
        /\ num_of_failed_files = 0

\* A run given an existing data directory without *.dat files has exited.
C15_Witness ==
    /\ pc = "exited"
    /\ err = "fatal_nofiles"
    /\ args.runtime_isdir /\ args.data_dir = "dir" /\ args.dir_names = <<>>

\* C16: the precondition of the definition phase. A run given a definition
\* file and no override, once past the entry of run_import, has exited
\* fatally for the missing import folder, with no copy made and the log
\* never opened.
C16_DefinitionNeedsOverride ==
    (args.def_file /\ args.import_dir = NoPath /\ Started) =>
        /\ pc = "exited"
        /\ err = "fatal_deffolder"
        /\ copies = <<>>
        /\ opens = 0

\* C17: no concurrent imports. At most one placed file is waiting for the
\* target system's report: a file is copied only when every file copied
\* before it has been reported.
C17_OneImportInFlight == Len(copies) <= target.served + 1

\* C18: termination of the wait. With a target system that logs the
\* import-finished line and then the result line for every placed file,
\* and the monitor polling for ever, every wait comes to its end.
C18_WaitEnds ==
    (pc \in {"wait", "waitdef"}) ~> (pc \notin {"wait", "waitdef"})

\* C19: a configuration failure is fatal at startup. With no forced type
\* and no override, a run whose configuration file fails to load has, once
\* constructed, exited fatally for that reason; it never ends on the
\* runtime-root or input checks, and never raises for the missing catalog.
C19_ConfigFailureIsFatal ==
    (/\ ~args.cfg_ok
     /\ args.data_type = None
     /\ args.import_dir = NoPath
     /\ pc # "new") =>
        /\ pc = "exited"
        /\ err = "fatal_config"

----------------------------------------------------------------------------
(* tail on its own *)

\* Files of at most MaxTailLines complete lines of one to three characters.
RECURSIVE SeqsUpTo(_, _)
SeqsUpTo(S, n) ==
    IF n = 0 THEN {<<>>}
    ELSE LET shorter == SeqsUpTo(S, n - 1)
         IN  shorter \cup {Append(q, x) : q \in shorter, x \in S}

TailFiles == SeqsUpTo({<<NL>>, <<OtherMark, NL>>, Line(FinishedMark, 0)}, MaxTailLines)

\* Only whether the file object seeks from its end matters to tail.
TailArgs ==
    {a \in ArgSpace : /\ ArgsOK(a)
                      /\ a.ares_runtime = RuntimeDir
                      /\ ~a.env_set /\ ~a.home_isdir /\ a.runtime_isdir
                      /\ a.data_dir = "dir" /\ a.dir_names = <<NameAB>>
                      /\ ~a.def_file
                      /\ a.import_dir = NoPath
                      /\ a.data_type = None
                      /\ a.cfg_ok /\ a.catalog = <<RuleA, RuleAB>>
                      /\ a.log_ok}

InitTail == InitFrom(TailArgs, TailFiles, "tail")

\* A call of tail on the file, for some number of lines and buffer size.
TailCall ==
    /\ pc = "tail"
    /\ \E lines \in 1..MaxTailLines, buffer \in 1..MaxBuffer :
          /\ last_2_lines' = tail(FileText(log), lines, buffer)
          /\ tail_call' = [lines |-> lines, buffer |-> buffer]
    /\ pc' = "tailed"
    /\ UNCHANGED <<args, err, ares_data_types, ares_runtime, import_dir,
                   input_files, num_of_files, num_of_imported_files,
                   num_of_failed_files, i, result, end_monitor, log, copies,
                   opens, outcomes, target>>

NextTail == TailCall

SpecTail == InitTail /\ [][NextTail]_vars

\* C13: tail returns the last min(n, L) lines of a file of L lines, in
\* file order and each of them whole, whatever the length of the file and
\* the size of the buffer.
C13_TailReturnsLastLines ==
    pc = "tailed" => last_2_lines = LastN(log, tail_call.lines)

\* C20: priority of the runtime root. The root is the argument when one
\* is given, else the ARES_RUNTIME variable when set, else ~/ARES_RUNTIME
\* when it is a directory; with none of them the run exits in __init__.
\* Every copy goes below <root>/import and the log monitored is
\* <root>/AdminServer/ares_server.log of the root chosen.
C20_RuntimeRootPriority ==
    LET root == IF args.ares_runtime # NoPath THEN args.ares_runtime
                ELSE IF args.env_set THEN EnvDir
                ELSE IF args.home_isdir THEN Home \o <<"ARES_RUNTIME">>
                ELSE NoPath
    IN  pc # "new" =>
          /\ ares_runtime = root
          /\ (root = NoPath => pc = "exited" /\ err = "fatal_runtime")
          /\ admin_server_log = root \o <<"AdminServer", "ares_server.log">>
          /\ \A c \in 1..Len(copies) :
                /\ Len(copies[c].dst) > Len(root) + 1
                /\ SubSeq(copies[c].dst, 1, Len(root) + 1) = root \o <<"import">>

\* A run without root argument, with the variable set and the home default
\* present, has copied a file.
C20_Witness ==
    /\ args.ares_runtime = NoPath /\ args.env_set /\ args.home_isdir
    /\ pc = "done"
    /\ copies # <<>>

----------------------------------------------------------------------------
(* The legacy Ingestor (src/src/ImportFiles.py) *)

\* Runs of the Ingestor: a data directory is always given, there is no
\* definition file, single file or override directory. The order of the
\* catalog's rules is left fixed.
IngestorArgs ==
    {a \in MainArgs : /\ a.data_dir # None
                      /\ ~a.def_file
                      /\ a.import_dir = NoPath
                      /\ a.catalog = <<RuleA, RuleAB>>}

InitIngestor == InitFrom(IngestorArgs, InitLogs, "new")

\* How far Ingestor.__init__ gets.
IngestorInitEnd(a) ==
    IF ~a.runtime_isdir THEN <<"exited", "fatal_runtime">>
    ELSE IF a.data_dir # "dir" THEN <<"exited", "fatal_datadir">>
    ELSE IF Len(a.dir_names) < 1 THEN <<"exited", "fatal_nofiles">>
    ELSE <<"constructed", "none">>

\* Ingestor.__init__: the catalog is loaded whatever the arguments; a
\* failure to load it is logged and nothing more.
IngestorConstruct ==
    /\ pc = "new"
    /\ ares_data_types' = IF args.cfg_ok THEN Assigned(args.catalog)
                          ELSE ares_data_types
    /\ ares_runtime' = IF args.ares_runtime # NoPath THEN args.ares_runtime
                       ELSE AresRuntimeDir(args)
    /\ pc' = IngestorInitEnd(args)[1]
    /\ err' = IngestorInitEnd(args)[2]
    /\ input_files' =
          IF args.runtime_isdir /\ args.data_dir = "dir" THEN Glob(args)
          ELSE input_files
    /\ UNCHANGED <<args, import_dir, num_of_files, num_of_imported_files,
                   num_of_failed_files, i, last_2_lines, result, end_monitor,
                   tail_call, log, copies, opens, outcomes, target>>

\* Ingestor.run_import up to its loop: compile_patterns and the counters.
IngestorRunImport ==
    /\ pc = "constructed"
    /\ pc' = IF ares_data_types.assigned THEN "loop" ELSE "raised"
    /\ err' = IF ares_data_types.assigned THEN err ELSE "AttributeError"
    /\ num_of_files' = IF ares_data_types.assigned THEN Len(input_files)
                       ELSE num_of_files
    /\ num_of_imported_files' = 0
    /\ num_of_failed_files' = 0
    /\ i' = IF ares_data_types.assigned THEN 1 ELSE i
    /\ UNCHANGED <<args, ares_data_types, ares_runtime, import_dir, input_files,
                   last_2_lines, result, end_monitor, tail_call, log, copies,
                   opens, outcomes, target>>

\* The "Detect data type" block of Ingestor.run_import: a forced type
\* looks up Ingestor.AresImportFolders, which the class does not have.
IngestorDetect(fname) ==
    IF args.data_type # None
    THEN [ftype |-> None, fimport_dir |-> NoPath, raises |-> "AttributeError"]
    ELSE [raises |-> "none"] @@ FirstMatch(ares_data_types.rules, basename(fname))

\* One file of the loop of Ingestor.run_import up to its wait.
IngestorImportFile ==
    /\ pc = "loop"
    /\ LET fname == input_files[i]
           d == IngestorDetect(fname)
           unidentified == Unidentified(d)
           placed == Placed(d)
       IN  /\ pc' = IF d.raises # "none" THEN "raised"
                    ELSE IF unidentified THEN NextPos
                    ELSE IF args.log_ok THEN "wait"
                    ELSE "raised"
           /\ err' = IF d.raises # "none" THEN d.raises
                     ELSE IF placed /\ ~args.log_ok THEN "IOError"
                     ELSE err
           /\ num_of_failed_files' =
                 IF unidentified THEN num_of_failed_files + 1 ELSE num_of_failed_files
           /\ outcomes' =
                 IF unidentified
                 THEN Append(outcomes, Outcome(fname, "Unclassified", 0))
                 ELSE outcomes
           /\ i' = IF unidentified /\ NextPos = "loop" THEN i + 1 ELSE i
           /\ copies' = IF placed
                        THEN Append(copies, Copy(fname, ares_import \o d.fimport_dir, d.ftype))
                        ELSE copies
           /\ opens' = IF placed /\ args.log_ok THEN opens + 1 ELSE opens
    /\ result' = FALSE
    /\ end_monitor' = FALSE
    /\ last_2_lines' = <<>>
    /\ UNCHANGED <<args, ares_data_types, ares_runtime, import_dir, input_files,
                   num_of_files, num_of_imported_files, tail_call, log, target>>

\* The wait with the branch that is commented out in the source: a last
\* line reporting a failed task gives False.
wait_result_from_log(last_line) ==
    ~(last_line # <<>> /\ Match(TaskFailedRe, last_line[1]))

\* The result of the one pass of wait_until_import_is_completed: True,
\* whatever the line read.
wait_until_import_is_completed(last_line) == TRUE

\* The one pass of the loop of wait_until_import_is_completed (sleep, read
\* the last line, end the wait) and the caller's count of the result.
IngestorPoll ==
    /\ pc = "wait"
    /\ LET last_line == tail(FileText(log), 1, DefaultBuffer)
           import_result == wait_until_import_is_completed(last_line)
       IN  /\ last_2_lines' = last_line
           /\ result' = import_result
           /\ num_of_imported_files' =
                 IF import_result THEN num_of_imported_files + 1
                 ELSE num_of_imported_files
           /\ num_of_failed_files' =
                 IF import_result THEN num_of_failed_files
                 ELSE num_of_failed_files + 1
           /\ outcomes' =
                 Append(outcomes,
                        Outcome(copies[Len(copies)].src,
                                IF import_result THEN "Succeeded" ELSE "Failed",
                                Len(copies)))
    /\ end_monitor' = TRUE
    /\ tail_call' = [lines |-> 1, buffer |-> DefaultBuffer]
    /\ pc' = NextPos
    /\ i' = IF NextPos = "loop" THEN i + 1 ELSE i
    /\ UNCHANGED <<args, err, ares_data_types, ares_runtime, import_dir,
                   input_files, num_of_files, log, copies, opens, target>>

NextIngestor ==
    \/ IngestorConstruct
    \/ IngestorRunImport
    \/ IngestorImportFile
    \/ IngestorPoll
    \/ TargetNoise
    \/ TargetReportFirst
    \/ TargetReportSecond

SpecIngestor == InitIngestor /\ [][NextIngestor]_vars

C21_Statistics ==
    [][/\ num_of_imported_files' >= num_of_imported_files
       /\ num_of_failed_files' >= num_of_failed_files
       /\ (num_of_imported_files' + num_of_failed_files')
             - (num_of_imported_files + num_of_failed_files)
          = Len(outcomes') - Len(outcomes)
       /\ Len(outcomes') - Len(outcomes) \in {0, 1}
       /\ num_of_imported_files' + num_of_failed_files' = Len(outcomes')
       /\ num_of_imported_files' + num_of_failed_files' <= num_of_files'
       /\ \A k \in 1..Len(outcomes') : outcomes'[k].file # DefFile
       /\ (Len(copies') > Len(copies) /\ copies'[Len(copies')].ftype = "DEF_FILE") =>
             /\ num_of_imported_files' = num_of_imported_files
             /\ num_of_failed_files' = num_of_failed_files
             /\ num_of_files' = num_of_files
      ]_vars

\* A run of three files is Done with every file counted, at least one as
\* imported and at least one as failed.
C21_Witness ==
    /\ pc = "done"
    /\ num_of_files = 3
    /\ num_of_imported_files >= 1
    /\ num_of_failed_files >= 1
    /\ num_of_imported_files + num_of_failed_files = num_of_files

====
